---- MODULE Spec2Model ----
(***************************************************************************)
(* Model of diagrams.c4: the label formatters (_format_node_label,         *)
(* _format_description, _format_edge_label) and the builders (Container,   *)
(* Database, System, Person, SystemBoundary, Relationship).                *)
(*                                                                         *)
(* A Python str is a sequence of one-character strings.  The module is     *)
(* stateless: a behaviour is one call from the idle state, recorded as the *)
(* function called, the arguments passed and the value returned.           *)
(***************************************************************************)
EXTENDS Integers, Sequences, FiniteSets, TLC

VARIABLES called, args, ret

vars == <<called, args, ret>>

(***************************************************************************)
(* Characters and str helpers                                              *)
(***************************************************************************)

\* A character that str.isspace accepts but textwrap's _whitespace does not
\* list (U+2003 EM SPACE), held as one element of the sequence.
EmSpace == "U+2003"

\* textwrap._whitespace = '\t\n\x0b\x0c\r '
Whitespace == {"\t", "\n", "\f", "\r", "VT", " "}

\* What str.strip() removes: every character with str.isspace true.
StripSpace == Whitespace \cup {EmSpace}

Digits == {"0", "1", "2", "3", "4", "5", "6", "7", "8", "9"}

\* regex class [^\d\W], for ASCII text
Letters ==
    {"a", "b", "c", "d", "e", "f", "g", "h", "i", "j", "k", "l", "m",
     "n", "o", "p", "q", "r", "s", "t", "u", "v", "w", "x", "y", "z",
     "A", "B", "C", "D", "E", "F", "G", "H", "I", "J", "K", "L", "M",
     "N", "O", "P", "Q", "R", "S", "T", "U", "V", "W", "X", "Y", "Z",
     "_"}

\* regex \w
IsWord(c) == c \in Letters \cup Digits

\* regex [^\d\W]
IsLetter(c) == c \in Letters

\* regex [\w!"'&.,?]
IsWordPunct(c) == IsWord(c) \/ c \in {"!", "\"", "'", "&", ".", ",", "?"}

Rep(c, n) == [i \in 1..n |-> c]

Range(s) == {s[i] : i \in 1..Len(s)}

\* ''.join(ss[lo..hi]), halving the range
RECURSIVE ConcatRange(_, _, _)
ConcatRange(ss, lo, hi) ==
    IF lo > hi THEN <<>>
    ELSE IF lo = hi THEN ss[lo]
    ELSE LET mid == (lo + hi) \div 2
         IN  ConcatRange(ss, lo, mid) \o ConcatRange(ss, mid + 1, hi)

\* ''.join(ss)
Concat(ss) == ConcatRange(ss, 1, Len(ss))

\* min(S) and max(S) of a non-empty set of integers
Min(S) == CHOOSE x \in S : \A y \in S : x <= y

Max(S) == CHOOSE x \in S : \A y \in S : x >= y

\* s.replace(c, r) for a single character c
Replace(s, c, r) == Concat([i \in 1..Len(s) |-> IF s[i] = c THEN r ELSE <<s[i]>>])

\* sep.join(ss)
RECURSIVE Join(_, _)
Join(sep, ss) ==
    IF ss = <<>> THEN <<>>
    ELSE IF Len(ss) = 1 THEN ss[1]
    ELSE ss[1] \o sep \o Join(sep, Tail(ss))

StartsWithAt(s, i, p) ==
    /\ i + Len(p) - 1 <= Len(s)
    /\ \A j \in 1..Len(p) : s[i + j - 1] = p[j]

\* s.strip() == ''
IsBlank(s) == \A i \in 1..Len(s) : s[i] \in StripSpace

\* s.rstrip()
RECURSIVE RStrip(_)
RStrip(s) ==
    IF s # <<>> /\ s[Len(s)] \in StripSpace
    THEN RStrip(SubSeq(s, 1, Len(s) - 1))
    ELSE s

\* s.lstrip()
RECURSIVE LStrip(_)
LStrip(s) == IF s # <<>> /\ Head(s) \in StripSpace THEN LStrip(Tail(s)) ELSE s

(***************************************************************************)
(* html.escape(s), quote=True                                              *)
(***************************************************************************)

Amp == <<"&", "a", "m", "p", ";">>

Lt == <<"&", "l", "t", ";">>

Gt == <<"&", "g", "t", ";">>

Quot == <<"&", "q", "u", "o", "t", ";">>

Apos == <<"&", "#", "x", "2", "7", ";">>

\* s.replace("&", "&amp;") first, then "<", ">", '"' and "'"
HtmlEscape(s) ==
    Replace(Replace(Replace(Replace(Replace(s, "&", Amp), "<", Lt), ">", Gt),
                    "\"", Quot), "'", Apos)

(***************************************************************************)
(* textwrap.TextWrapper(width, max_lines).wrap(text), with the defaults    *)
(* expand_tabs, replace_whitespace, drop_whitespace, break_long_words,     *)
(* break_on_hyphens = True, tabsize = 8, placeholder = ' [...]'.           *)
(***************************************************************************)

TabSize == 8

Placeholder == <<" ", "[", ".", ".", ".", "]">>

\* The column of s[i] modulo the tab size: the column restarts after \n and
\* \r, and is a multiple of the tab size after a tab.
ColumnAt(s, i) ==
    LET last == Max({0} \cup {j \in 1..(i - 1) : s[j] \in {"\t", "\n", "\r"}})
    IN  (i - last - 1) % TabSize

\* str.expandtabs(8): a tab pads to the next multiple of 8 columns.
ExpandTabs(s) ==
    Concat([i \in 1..Len(s) |->
              IF s[i] = "\t" THEN Rep(" ", TabSize - ColumnAt(s, i)) ELSE <<s[i]>>])

\* MungeWhitespace as it would be had it also stripped leading whitespace.
MungeWhitespaceStripped(text) ==
    LET t == ExpandTabs(text)
    IN  LStrip([i \in 1..Len(t) |-> IF t[i] \in Whitespace THEN " " ELSE t[i]])

\* _munge_whitespace: expand tabs, then turn every _whitespace char to ' '.
MungeWhitespace(text) ==
    LET t == ExpandTabs(text)
    IN  [i \in 1..Len(t) |-> IF t[i] \in Whitespace THEN " " ELSE t[i]]

\* Index one past the run of characters in set S that starts at i.
RunEnd(s, i, S) == Min({Len(s) + 1} \cup {j \in i..Len(s) : s[j] \notin S})

At(s, i) == IF i >= 1 /\ i <= Len(s) THEN s[i] ELSE "NONE"

\* (?=-{2,}\w) at position i
DashesThenWord(s, i) ==
    LET e == RunEnd(s, i, {"-"})
    IN  e - i >= 2 /\ IsWord(At(s, e))

\* wordsep_re's word alternative: can a word that starts at p end just
\* before position e (p < e)?
WordEndsAt(s, p, e) ==
    \/ \* hyphenated word: the word's last character is the hyphen
       /\ e - p >= 2
       /\ s[e - 1] = "-"
       /\ \/ IsLetter(At(s, e - 3)) /\ IsLetter(At(s, e - 2))
          \/ /\ IsLetter(At(s, e - 4)) /\ At(s, e - 3) = "-"
             /\ IsLetter(At(s, e - 2))
       /\ IsLetter(At(s, e))
       /\ \/ IsLetter(At(s, e + 1))
          \/ At(s, e + 1) = "-" /\ IsLetter(At(s, e + 2))
    \/ \* end of word
       e > Len(s) \/ s[e] \in Whitespace
    \/ \* em-dash follows
       IsWordPunct(s[e - 1]) /\ DashesThenWord(s, e)

\* The lazy match: the first position at which the word can end.
WordEnd(s, p) ==
    Min({e \in (p + 1)..RunEnd(s, p, {c \in Range(s) : c \notin Whitespace}) :
           WordEndsAt(s, p, e)})

\* One past the end of wordsep_re's match at p.
ChunkEnd(s, p) ==
    IF s[p] \in Whitespace THEN RunEnd(s, p, Whitespace)
    ELSE IF s[p] = "-" /\ IsWordPunct(At(s, p - 1)) /\ DashesThenWord(s, p)
         THEN RunEnd(s, p, {"-"})
    ELSE WordEnd(s, p)

\* _split: the chunks of wordsep_re.split(text), empty strings removed.
RECURSIVE SplitFrom(_, _)
SplitFrom(s, p) ==
    IF p > Len(s) THEN <<>>
    ELSE LET e == ChunkEnd(s, p)
         IN  <<SubSeq(s, p, e - 1)>> \o SplitFrom(s, e)

Split(text) == SplitFrom(text, 1)

\* How many leading chunks fit: the inner "while chunks" loop.
RECURSIVE Fit(_, _, _, _)
Fit(chunks, n, curLen, width) ==
    IF n < Len(chunks) /\ curLen + Len(chunks[n + 1]) <= width
    THEN Fit(chunks, n + 1, curLen + Len(chunks[n + 1]), width)
    ELSE n

RECURSIVE TotalLen(_)
TotalLen(ss) == IF ss = <<>> THEN 0 ELSE Len(Head(ss)) + TotalLen(Tail(ss))

\* chunk.rfind('-', 0, spaceLeft), 0-based, -1 when absent
RECURSIVE RFindHyphen(_, _)
RFindHyphen(chunk, k) ==
    IF k < 1 THEN -1
    ELSE IF chunk[k] = "-" THEN k - 1
    ELSE RFindHyphen(chunk, k - 1)

\* _handle_long_word: how many characters of the chunk go on this line.
LongWordEnd(chunk, spaceLeft) ==
    LET hyphen == RFindHyphen(chunk, IF spaceLeft < Len(chunk) THEN spaceLeft ELSE Len(chunk))
    IN  IF /\ Len(chunk) > spaceLeft
           /\ hyphen > 0
           /\ \E j \in 1..hyphen : chunk[j] # "-"
        THEN hyphen + 1
        ELSE spaceLeft

\* The truncation loop: drop chunks from the end of cur_line until one is
\* not blank and leaves room for the placeholder; <<>> when none does.
RECURSIVE TruncLine(_, _, _)
TruncLine(curLine, curLen, width) ==
    IF curLine = <<>> THEN <<>>
    ELSE LET last == curLine[Len(curLine)]
         IN  IF ~IsBlank(last) /\ curLen + Len(Placeholder) <= width
             THEN Append(curLine, Placeholder)
             ELSE TruncLine(SubSeq(curLine, 1, Len(curLine) - 1),
                            curLen - Len(last), width)

\* _wrap_chunks: one pass of the outer loop per call.
RECURSIVE WrapChunks(_, _, _, _)
WrapChunks(chunks0, lines, width, maxLines) ==
    IF chunks0 = <<>> THEN lines
    ELSE
    LET chunks == IF IsBlank(chunks0[1]) /\ lines # <<>>
                  THEN Tail(chunks0) ELSE chunks0
        n == Fit(chunks, 0, 0, width)
        taken == SubSeq(chunks, 1, n)
        left == SubSeq(chunks, n + 1, Len(chunks))
        long == left # <<>> /\ Len(left[1]) > width
        end == IF long THEN LongWordEnd(left[1], width - TotalLen(taken)) ELSE 0
        line1 == IF long THEN Append(taken, SubSeq(left[1], 1, end)) ELSE taken
        rest == IF long
                THEN <<SubSeq(left[1], end + 1, Len(left[1]))>> \o Tail(left)
                ELSE left
        curLine == IF line1 # <<>> /\ IsBlank(line1[Len(line1)])
                   THEN SubSeq(line1, 1, Len(line1) - 1) ELSE line1
        curLen == TotalLen(curLine)
    IN  IF curLine = <<>> THEN WrapChunks(rest, lines, width, maxLines)
        ELSE IF \/ Len(lines) + 1 < maxLines
                \/ /\ rest = <<>> \/ (Len(rest) = 1 /\ IsBlank(rest[1]))
                   /\ curLen <= width
        THEN WrapChunks(rest, Append(lines, Concat(curLine)), width, maxLines)
        ELSE LET t == TruncLine(curLine, curLen, width)
                 prev == IF lines = <<>> THEN <<>> ELSE RStrip(lines[Len(lines)])
             IN  IF t # <<>> THEN Append(lines, Concat(t))
                 ELSE IF lines # <<>> /\ Len(prev) + Len(Placeholder) <= width
                 THEN [lines EXCEPT ![Len(lines)] = prev \o Placeholder]
                 ELSE Append(lines, LStrip(Placeholder))

\* Wrap as it would be had max_lines not been passed to the TextWrapper.
WrapUnlimited(text, width, maxLines) ==
    WrapChunks(Split(MungeWhitespace(text)), <<>>, width, Len(text) + 1)

\* TextWrapper(width=width, max_lines=maxLines).wrap(text)
Wrap(text, width, maxLines) ==
    WrapChunks(Split(MungeWhitespace(text)), <<>>, width, maxLines)

(***************************************************************************)
(* The label formatters                                                    *)
(***************************************************************************)

NodeWidth == 40

NodeMaxLines == 3

EdgeWidth == 24

EdgeMaxLines == 3

Br == <<"<", "b", "r", "/", ">">>

\* Pad3 as it would be if it added three lines whatever the length.
Pad3Always(lines) == lines \o [i \in 1..3 |-> <<>>]

\* lines += [""] * (3 - len(lines))
Pad3(lines) == lines \o [i \in 1..(3 - Len(lines)) |-> <<>>]

\* [html.escape(line) for line in lines]
EscapeLines(lines) == [i \in 1..Len(lines) |-> HtmlEscape(lines[i])]

\* _format_description(description)
FormatDescription(description) ==
    Join(Br, Pad3(EscapeLines(Wrap(description, NodeWidth, NodeMaxLines))))

EdgeOpen == <<"<", "<", "f", "o", "n", "t", " ", "p", "o", "i", "n", "t", "-", "s", "i", "z", "e", "=", "\"", "1", "0", "\"", ">">>

EdgeClose == <<"<", "/", "f", "o", "n", "t", ">", ">">>

\* FormatEdgeLabel as it would be with the node label's line width.
FormatEdgeLabelNodeWidth(description) ==
    EdgeOpen \o Join(Br, EscapeLines(Wrap(description, NodeWidth, EdgeMaxLines)))
             \o EdgeClose

\* FormatEdgeLabel as it would be if it returned '' for an empty description.
FormatEdgeLabelOrEmpty(description) ==
    IF description = <<>> THEN <<>>
    ELSE EdgeOpen \o Join(Br, EscapeLines(Wrap(description, EdgeWidth, EdgeMaxLines)))
                  \o EdgeClose

\* _format_edge_label(description)
FormatEdgeLabel(description) ==
    EdgeOpen \o Join(Br, EscapeLines(Wrap(description, EdgeWidth, EdgeMaxLines))) \o EdgeClose

TitleOpen == <<"<", "f", "o", "n", "t", " ", "p", "o", "i", "n", "t", "-", "s", "i", "z", "e", "=", "\"", "1", "2", "\"", ">", "<", "b", ">">>

TitleClose == <<"<", "/", "b", ">", "<", "/", "f", "o", "n", "t", ">", "<", "b", "r", "/", ">">>

SubtitleOpen == <<"<", "f", "o", "n", "t", " ", "p", "o", "i", "n", "t", "-", "s", "i", "z", "e", "=", "\"", "9", "\"", ">", "[">>

SubtitleClose == <<"]", "<", "b", "r", "/", ">", "<", "/", "f", "o", "n", "t", ">">>

TextOpen == <<"<", "b", "r", "/", ">", "<", "f", "o", "n", "t", " ", "p", "o", "i", "n", "t", "-", "s", "i", "z", "e", "=", "\"", "1", "0", "\"", ">">>

TextClose == <<"<", "/", "f", "o", "n", "t", ">">>

\* FormatNodeLabel as it would be with the key embedded unescaped.
FormatNodeLabelRawKey(name, key, description) ==
    LET title == TitleOpen \o HtmlEscape(name) \o TitleClose
        subtitle == IF key # <<>>
                    THEN SubtitleOpen \o key \o SubtitleClose
                    ELSE <<>>
        text == IF description # <<>>
                THEN TextOpen \o FormatDescription(description) \o TextClose
                ELSE <<>>
    IN  <<"<">> \o title \o subtitle \o text \o <<">">>

\* _format_node_label(name, key, description)
FormatNodeLabel(name, key, description) ==
    LET title == TitleOpen \o HtmlEscape(name) \o TitleClose
        subtitle == IF key # <<>>
                    THEN SubtitleOpen \o HtmlEscape(key) \o SubtitleClose
                    ELSE <<>>
        text == IF description # <<>>
                THEN TextOpen \o FormatDescription(description) \o TextClose
                ELSE <<>>
    IN  <<"<">> \o title \o subtitle \o text \o <<">">>

(***************************************************************************)
(* The builders.  An attribute set is a function from attribute names to   *)
(* values; the value handed to Node, Edge or Cluster is the model's ret.   *)
(***************************************************************************)

V_c == <<"c">>

V_rect == <<"r", "e", "c", "t">>

V_cylinder == <<"c", "y", "l", "i", "n", "d", "e", "r">>

V_2_6 == <<"2", ".", "6">>

V_1_6 == <<"1", ".", "6">>

V_2 == <<"2">>

V_1 == <<"1">>

V_true == <<"t", "r", "u", "e">>

V_filled == <<"f", "i", "l", "l", "e", "d">>

V_rounded_filled == <<"r", "o", "u", "n", "d", "e", "d", ",", "f", "i", "l", "l", "e", "d">>

V_dodgerblue3 == <<"d", "o", "d", "g", "e", "r", "b", "l", "u", "e", "3">>

V_dodgerblue4 == <<"d", "o", "d", "g", "e", "r", "b", "l", "u", "e", "4">>

V_gray60 == <<"g", "r", "a", "y", "6", "0">>

V_white == <<"w", "h", "i", "t", "e">>

V_16 == <<"1", "6">>

V_dashed == <<"d", "a", "s", "h", "e", "d">>

\* dict.update: the entries of b replace and extend those of a
Update(a, b) ==
    [k \in DOMAIN a \cup DOMAIN b |-> IF k \in DOMAIN b THEN b[k] ELSE a[k]]

ContainerKey(technology) ==
    IF technology # <<>> THEN <<"C", "o", "n", "t", "a", "i", "n", "e", "r", ":", " ">> \o technology ELSE <<"C", "o", "n", "t", "a", "i", "n", "e", "r">>

\* DatabaseKey as it would be with the technology appended unconditionally.
DatabaseKeyAlways(technology) == <<"D", "a", "t", "a", "b", "a", "s", "e", ":", " ">> \o technology

DatabaseKey(technology) ==
    IF technology # <<>> THEN <<"D", "a", "t", "a", "b", "a", "s", "e", ":", " ">> \o technology ELSE <<"D", "a", "t", "a", "b", "a", "s", "e">>

SystemKey(external) == IF external THEN <<"E", "x", "t", "e", "r", "n", "a", "l", " ", "S", "y", "s", "t", "e", "m">> ELSE <<"S", "y", "s", "t", "e", "m">>

PersonKey(external) == IF external THEN <<"E", "x", "t", "e", "r", "n", "a", "l", " ", "P", "e", "r", "s", "o", "n">> ELSE <<"P", "e", "r", "s", "o", "n">>

\* node_attributes update of a System or Person without a description
Collapsed == [width |-> V_2, height |-> V_1]

ContainerNode(name, technology, description, kwargs) ==
    Update([label |-> FormatNodeLabel(name, ContainerKey(technology), description),
            labelloc |-> V_c,
            shape |-> V_rect,
            width |-> V_2_6,
            height |-> V_1_6,
            fixedsize |-> V_true,
            style |-> V_filled,
            fillcolor |-> V_dodgerblue3,
            fontcolor |-> V_white],
           kwargs)

DatabaseNode(name, technology, description, kwargs) ==
    Update([label |-> FormatNodeLabel(name, DatabaseKey(technology), description),
            shape |-> V_cylinder,
            width |-> V_2_6,
            height |-> V_1_6,
            fixedsize |-> V_true,
            style |-> V_filled,
            fillcolor |-> V_dodgerblue3,
            fontcolor |-> V_white],
           kwargs)

\* SystemNode as it would be with the collapse applied after the overrides.
SystemNodeCollapseLast(name, description, external, kwargs) ==
    LET node_attributes ==
            [label |-> FormatNodeLabel(name, SystemKey(external), description),
             labelloc |-> V_c,
             shape |-> V_rect,
             width |-> V_2_6,
             height |-> V_1_6,
             fixedsize |-> V_true,
             style |-> V_filled,
             fillcolor |-> IF external THEN V_gray60 ELSE V_dodgerblue4,
             fontcolor |-> V_white]
        merged == Update(node_attributes, kwargs)
    IN  IF description = <<>> THEN Update(merged, Collapsed) ELSE merged

SystemNode(name, description, external, kwargs) ==
    LET node_attributes ==
            [label |-> FormatNodeLabel(name, SystemKey(external), description),
             labelloc |-> V_c,
             shape |-> V_rect,
             width |-> V_2_6,
             height |-> V_1_6,
             fixedsize |-> V_true,
             style |-> V_filled,
             fillcolor |-> IF external THEN V_gray60 ELSE V_dodgerblue4,
             fontcolor |-> V_white]
        collapsed == IF description = <<>>
                     THEN Update(node_attributes, Collapsed)
                     ELSE node_attributes
    IN  Update(collapsed, kwargs)

\* PersonNode as it would be without the collapse.
PersonNodeNoCollapse(name, description, external, kwargs) ==
    Update([label |-> FormatNodeLabel(name, PersonKey(external), description),
            labelloc |-> V_c,
            shape |-> V_rect,
            width |-> V_2_6,
            height |-> V_1_6,
            fixedsize |-> V_true,
            style |-> V_rounded_filled,
            fillcolor |-> IF external THEN V_gray60 ELSE V_dodgerblue4,
            fontcolor |-> V_white],
           kwargs)

PersonNode(name, description, external, kwargs) ==
    LET node_attributes ==
            [label |-> FormatNodeLabel(name, PersonKey(external), description),
             labelloc |-> V_c,
             shape |-> V_rect,
             width |-> V_2_6,
             height |-> V_1_6,
             fixedsize |-> V_true,
             style |-> V_rounded_filled,
             fillcolor |-> IF external THEN V_gray60 ELSE V_dodgerblue4,
             fontcolor |-> V_white]
        collapsed == IF description = <<>>
                     THEN Update(node_attributes, Collapsed)
                     ELSE node_attributes
    IN  Update(collapsed, kwargs)

\* graph_attr of the Cluster
SystemBoundaryCluster(name, kwargs) ==
    Update([label |-> HtmlEscape(name),
            bgcolor |-> V_white,
            margin |-> V_16,
            style |-> V_dashed],
           kwargs)

RelationshipEdge(label, kwargs) ==
    LET edge_attribtues == [style |-> V_dashed, color |-> V_gray60]
        labelled == IF label # <<>>
                    THEN Update(edge_attribtues, [label |-> FormatEdgeLabel(label)])
                    ELSE edge_attribtues
    IN  Update(labelled, kwargs)

(***************************************************************************)
(* The calls: one action per function, its arguments drawn from bounded    *)
(* sets of strings.                                                        *)
(***************************************************************************)

MaxItems == 3

MaxShort == 3

MaxRepeat == 3

MaxOverrides == 1

\* The five characters html.escape rewrites.
Markup == <<"<", ">", "&", "\"", "'">>

\* A word that fills a node line exactly, made of a character that escapes.
LineWord == Rep("&", NodeWidth)

\* A word longer than a node line, which wrap has to break.
LongWord == Rep("a", NodeWidth + 5)

Words == {Markup, LineWord, LongWord}

Seps == {<<>>, <<" ">>}

Items == {w \o sp : w \in Words, sp \in Seps}

SeqsUpTo(S, n) == UNION {[1..k -> S] : k \in 0..n}

\* Descriptions of up to MaxItems words, with or without spaces between.
Descriptions == {Concat(q) : q \in SeqsUpTo(Items, MaxItems)}

ShortAlphabet == {"a", " ", "\t", "\n", "<", EmSpace}

ShortPrefixes == {<<>>, <<"a", "a", "-">> \o Rep("a", NodeWidth - 4 - MaxShort)}

\* Descriptions shorter than a node line: up to MaxShort characters, alone or
\* after a hyphenated word that brings the length close to the line width.
ShortDescriptions ==
    {pre \o t : pre \in ShortPrefixes, t \in SeqsUpTo(ShortAlphabet, MaxShort)}

Names == {<<"A", "P", "I">>, Markup}

Technologies == {<<>>, <<"a">>, Markup}

\* Descriptions and edge labels of the builder calls: a word, or only the
\* space after it, up to MaxRepeat times.
LabelTexts ==
    {Concat(Rep(w \o <<" ">>, n)) : w \in {<<>>, Markup, LongWord}, n \in 0..MaxRepeat}

OverrideKeys == {"label", "width", "height", "fillcolor", "tooltip"}

Custom == <<"r", "e", "d">>

\* **kwargs: up to MaxOverrides attributes set by the caller
Kwargs ==
    {[k \in K |-> Custom] : K \in {X \in SUBSET OverrideKeys : Cardinality(X) <= MaxOverrides}}

NoArgs ==
    [name |-> <<>>, technology |-> <<>>, description |-> <<>>,
     external |-> FALSE, label |-> <<>>, kwargs |-> <<>>]

Init ==
    /\ called = "idle"
    /\ args = NoArgs
    /\ ret = <<>>

FormatDescriptionCall ==
    /\ called = "idle"
    /\ \E d \in Descriptions \cup ShortDescriptions :
         /\ called' = "_format_description"
         /\ args' = [NoArgs EXCEPT !.description = d]
         /\ ret' = FormatDescription(d)

\* _format_description applied to the body a first call returned
FormatDescriptionAgain ==
    /\ called = "_format_description"
    /\ called' = "_format_description again"
    /\ args' = [NoArgs EXCEPT !.description = ret]
    /\ ret' = FormatDescription(ret)

FormatEdgeLabelCall ==
    /\ called = "idle"
    /\ \E d \in Descriptions :
         /\ called' = "_format_edge_label"
         /\ args' = [NoArgs EXCEPT !.description = d]
         /\ ret' = FormatEdgeLabel(d)

Container ==
    /\ called = "idle"
    /\ \E n \in Names, t \in Technologies, d \in LabelTexts, kw \in Kwargs :
         /\ called' = "Container"
         /\ args' = [NoArgs EXCEPT !.name = n, !.technology = t,
                                   !.description = d, !.kwargs = kw]
         /\ ret' = ContainerNode(n, t, d, kw)

Database ==
    /\ called = "idle"
    /\ \E n \in Names, t \in Technologies, d \in LabelTexts, kw \in Kwargs :
         /\ called' = "Database"
         /\ args' = [NoArgs EXCEPT !.name = n, !.technology = t,
                                   !.description = d, !.kwargs = kw]
         /\ ret' = DatabaseNode(n, t, d, kw)

System ==
    /\ called = "idle"
    /\ \E n \in Names, d \in LabelTexts, e \in BOOLEAN, kw \in Kwargs :
         /\ called' = "System"
         /\ args' = [NoArgs EXCEPT !.name = n, !.description = d,
                                   !.external = e, !.kwargs = kw]
         /\ ret' = SystemNode(n, d, e, kw)

Person ==
    /\ called = "idle"
    /\ \E n \in Names, d \in LabelTexts, e \in BOOLEAN, kw \in Kwargs :
         /\ called' = "Person"
         /\ args' = [NoArgs EXCEPT !.name = n, !.description = d,
                                   !.external = e, !.kwargs = kw]
         /\ ret' = PersonNode(n, d, e, kw)

SystemBoundary ==
    /\ called = "idle"
    /\ \E n \in Names \cup LabelTexts, kw \in Kwargs :
         /\ called' = "SystemBoundary"
         /\ args' = [NoArgs EXCEPT !.name = n, !.kwargs = kw]
         /\ ret' = SystemBoundaryCluster(n, kw)

Relationship ==
    /\ called = "idle"
    /\ \E l \in LabelTexts, kw \in Kwargs :
         /\ called' = "Relationship"
         /\ args' = [NoArgs EXCEPT !.label = l, !.kwargs = kw]
         /\ ret' = RelationshipEdge(l, kw)

\* The builders.
Next ==
    \/ Container
    \/ Database
    \/ System
    \/ Person
    \/ SystemBoundary
    \/ Relationship

Spec == Init /\ [][Next]_vars

\* The formatters of the label text.
NextFormat ==
    \/ FormatDescriptionCall
    \/ FormatDescriptionAgain
    \/ FormatEdgeLabelCall

SpecFormat == Init /\ [][NextFormat]_vars

(***************************************************************************)
(* Vocabulary of the properties: reading a label back.                     *)
(***************************************************************************)

Occurrences(s, p) == {i \in 1..Len(s) : StartsWithAt(s, i, p)}

\* The k-th smallest element of a set of integers.
Nth(S, k) == CHOOSE x \in S : Cardinality({y \in S : y < x}) = k - 1

\* s.split(sep), for a separator that cannot overlap itself
SplitOn(s, sep) ==
    LET P == Occurrences(s, sep)
        n == Cardinality(P)
    IN  [k \in 1..(n + 1) |->
           SubSeq(s,
                  IF k = 1 THEN 1 ELSE Nth(P, k - 1) + Len(sep),
                  IF k = n + 1 THEN Len(s) ELSE Nth(P, k) - 1)]

IsPrefix(p, s) == Len(p) <= Len(s) /\ SubSeq(s, 1, Len(p)) = p

EndsWith(s, p) == Len(p) <= Len(s) /\ SubSeq(s, Len(s) - Len(p) + 1, Len(s)) = p

Entities == {Amp, Lt, Gt, Quot, Apos}

EntityChar(e) ==
    CASE e = Amp -> "&" [] e = Lt -> "<" [] e = Gt -> ">"
      [] e = Quot -> "\"" [] e = Apos -> "'"

EntityAt(s, i) == {e \in Entities : StartsWithAt(s, i, e)}

\* No markup-sensitive character stands for itself: every & opens one of
\* the five entities, and <, >, " and ' do not occur.
IsEscaped(s) ==
    \A i \in 1..Len(s) :
        /\ s[i] \notin {"<", ">", "\"", "'"}
        /\ s[i] = "&" => EntityAt(s, i) # {}

\* Position i lies inside an entity that opens before it.
InEntity(s, i) ==
    \E j \in 1..(i - 1) :
        /\ i - j < Len(Quot)
        /\ s[j] = "&"
        /\ \E e \in EntityAt(s, j) : j + Len(e) > i

\* The text an escaped string stands for.
Unescape(s) ==
    Concat([i \in 1..Len(s) |->
              IF s[i] = "&" /\ EntityAt(s, i) # {}
              THEN <<EntityChar(CHOOSE e \in EntityAt(s, i) : TRUE)>>
              ELSE IF InEntity(s, i) THEN <<>> ELSE <<s[i]>>])

\* The tags the formatters emit.
FixedTags ==
    {Br, <<"<", "f", "o", "n", "t", " ", "p", "o", "i", "n", "t", "-", "s", "i", "z", "e", "=", "\"", "1", "2", "\"", ">">>, <<"<", "f", "o", "n", "t", " ", "p", "o", "i", "n", "t", "-", "s", "i", "z", "e", "=", "\"", "1", "0", "\"", ">">>, <<"<", "f", "o", "n", "t", " ", "p", "o", "i", "n", "t", "-", "s", "i", "z", "e", "=", "\"", "9", "\"", ">">>, <<"<", "b", ">">>, <<"<", "/", "b", ">">>, <<"<", "/", "f", "o", "n", "t", ">">>}

InTag(s, i) ==
    \E j \in 1..i :
        /\ s[j] = "<"
        /\ \E t \in FixedTags : j + Len(t) > i /\ StartsWithAt(s, j, t)

\* Outside the fixed tags, the text is escaped.
UserTextEscaped(s) ==
    \A i \in 1..Len(s) :
        /\ s[i] \in {"<", ">", "\"", "'"} => InTag(s, i)
        /\ s[i] = "&" => EntityAt(s, i) # {}

NodeBuilders == {"Container", "Database", "System", "Person"}

Builders == NodeBuilders \cup {"SystemBoundary", "Relationship"}

LabelComputed == "label" \in DOMAIN ret /\ "label" \notin DOMAIN args.kwargs

(***************************************************************************)
(* Properties of _format_description and _format_edge_label, under         *)
(* SpecFormat.                                                             *)
(***************************************************************************)

\* The body is three escaped segments joined by two <br/>, each standing
\* for at most NodeWidth characters.
ThreeLines(body) ==
    LET segs == SplitOn(body, Br)
    IN  /\ Len(segs) = 3
        /\ \A k \in 1..Len(segs) :
             IsEscaped(segs[k]) /\ Len(Unescape(segs[k])) <= NodeWidth

\* C1: for every description, _format_description returns exactly three
\* escaped segments joined by two "<br/>", each holding at most 40
\* characters of the wrapped text before escaping.
C1_AlwaysThreeLines ==
    called = "_format_description" => ThreeLines(ret)

\* C1's case: a description of more than three lines whose escaped lines
\* are longer than 40 characters.
C1_Witness ==
    /\ called = "_format_description"
    /\ Len(args.description) > 3 * NodeWidth
    /\ \E k \in 1..3 : Len(SplitOn(ret, Br)[k]) > NodeWidth

Ellipsis == <<"[", ".", ".", ".", "]">>

\* The wrap of the description at NodeWidth with no limit on the lines.
FullWrap == Wrap(args.description, NodeWidth, Len(args.description) + 1)

\* C2: when the wrap at 40 characters gives more than three lines, the
\* third line of the body ends with the ellipsis marker, and the body holds
\* nothing the untruncated wrap places after its third line.
C2_ThirdLineEndsWithEllipsis ==
    called = "_format_description" =>
        \A full \in {FullWrap} :
            Len(full) > NodeMaxLines =>
                LET segs == SplitOn(ret, Br)
                    third == segs[3]
                    kept == SubSeq(third, 1, Len(third) - Len(Ellipsis))
                IN  /\ Len(segs) = 3
                    /\ EndsWith(third, Ellipsis)
                    /\ Unescape(segs[1]) = full[1]
                    /\ Unescape(segs[2]) = full[2]
                    /\ IsPrefix(RStrip(Unescape(kept)), full[3])

LineBreaks == {"\n", "\r", "\f", "VT"}

Short == Len(args.description) < NodeWidth

PlainSpaces ==
    /\ Range(args.description) \cap (StripSpace \ {" "}) = {}
    /\ args.description = <<>> \/ args.description[Len(args.description)] # " "

C7_EmptyEdgeLabelIsEmpty ==
    /\ (called = "_format_edge_label" /\ args.description = <<>>) => ret = <<>>
    /\ (called = "_format_description" /\ args.description = <<>>) =>
           ret = Br \o Br

\* C7 as amended: _format_edge_label('') is the point-size-10 font span
\* around no text, not the empty string, and _format_description('') is
\* three blank lines.
C7_EmptyEdgeLabelIsEmptySpan ==
    /\ (called = "_format_edge_label" /\ args.description = <<>>) =>
           ret = <<"<", "<", "f", "o", "n", "t", " ", "p", "o", "i", "n", "t", "-", "s", "i", "z", "e", "=", "\"", "1", "0", "\"", ">", "<", "/", "f", "o", "n", "t", ">", ">">>
    /\ (called = "_format_description" /\ args.description = <<>>) =>
           ret = Br \o Br

\* C7's case: _format_edge_label called with the empty description.
C7_Witness == called = "_format_edge_label" /\ args.description = <<>>

\* C10 as claimed: formatting the three-line result again returns it
\* unchanged.
C10_Idempotent ==
    called = "_format_description again" => ret = args.description

\* C10 as amended: formatting the three-line result again gives three lines
\* again, and padding lines already padded to three adds none.
C10_AgainThreeLines ==
    called = "_format_description again" =>
        /\ ThreeLines(ret)
        /\ LET lines == EscapeLines(Wrap(args.description, NodeWidth, NodeMaxLines))
           IN  Pad3(Pad3(lines)) = Pad3(lines)

\* C10's case: a three-line body formatted again, with another result.
C10_Witness ==
    /\ called = "_format_description again"
    /\ Len(SplitOn(args.description, Br)) = 3
    /\ ret # args.description

(***************************************************************************)
(* Properties of the builders, under Spec.                                 *)
(***************************************************************************)

\* C4: in the labels the formatters produce, the user's <, >, &, " and '
\* appear only escaped; the only raw < and > belong to the fixed tags.
C4_UserTextEscaped ==
    /\ (called \in NodeBuilders \cup {"Relationship"} /\ LabelComputed) =>
           /\ Head(ret.label) = "<"
           /\ ret.label[Len(ret.label)] = ">"
           /\ UserTextEscaped(SubSeq(ret.label, 2, Len(ret.label) - 1))
    /\ (called = "SystemBoundary" /\ LabelComputed) => IsEscaped(ret.label)

\* C4's case: a node whose name, technology and description all hold
\* markup characters.
C4_Witness ==
    /\ called = "Container"
    /\ LabelComputed
    /\ args.name = Markup
    /\ args.technology = Markup
    /\ "<" \in Range(args.description)

\* The attribute set of the call without overrides.
Computed ==
    CASE called = "Container" ->
           ContainerNode(args.name, args.technology, args.description, <<>>)
      [] called = "Database" ->
           DatabaseNode(args.name, args.technology, args.description, <<>>)
      [] called = "System" ->
           SystemNode(args.name, args.description, args.external, <<>>)
      [] called = "Person" ->
           PersonNode(args.name, args.description, args.external, <<>>)
      [] called = "SystemBoundary" -> SystemBoundaryCluster(args.name, <<>>)
      [] called = "Relationship" -> RelationshipEdge(args.label, <<>>)

\* C5: every overridden key has the caller's value and every other key its
\* computed default, the size of a System or Person without a description
\* and the label included.
C5_OverridesWin ==
    called \in Builders =>
        \A computed \in {Computed} :
            /\ DOMAIN ret = DOMAIN computed \cup DOMAIN args.kwargs
            /\ \A k \in DOMAIN args.kwargs : ret[k] = args.kwargs[k]
            /\ \A k \in DOMAIN computed \ DOMAIN args.kwargs : ret[k] = computed[k]

\* C5's case: the width of a System without a description, overridden.
C5_Witness ==
    /\ called = "System"
    /\ args.description = <<>>
    /\ "width" \in DOMAIN args.kwargs

\* C6: Relationship with an empty label sets style, color and the overrides
\* only; with a label it sets the point-size-10 font span around at most 3
\* escaped lines of at most 24 characters each.
C6_EdgeLabel ==
    called = "Relationship" =>
        /\ args.label = <<>> =>
               DOMAIN ret = {"style", "color"} \cup DOMAIN args.kwargs
        /\ (args.label # <<>> /\ "label" \notin DOMAIN args.kwargs) =>
               /\ "label" \in DOMAIN ret
               /\ IsPrefix(<<"<", "<", "f", "o", "n", "t", " ", "p", "o", "i", "n", "t", "-", "s", "i", "z", "e", "=", "\"", "1", "0", "\"", ">">>, ret.label)
               /\ EndsWith(ret.label, <<"<", "/", "f", "o", "n", "t", ">", ">">>)
               /\ LET text == SubSeq(ret.label, 24, Len(ret.label) - 8)
                      segs == SplitOn(text, Br)
                  IN  /\ Len(segs) <= 3
                      /\ \A k \in 1..Len(segs) :
                           /\ IsEscaped(segs[k])
                           /\ Len(Unescape(segs[k])) <= 24

\* C6's case: a label of more than three lines with markup characters.
C6_Witness ==
    /\ called = "Relationship"
    /\ LabelComputed
    /\ Len(args.label) > 3 * EdgeWidth
    /\ Len(SplitOn(ret.label, Br)) = 3

\* C8: without size overrides a System or Person is 2 x 1 exactly when the
\* description is empty and 2.6 x 1.6 otherwise, a Container or Database is
\* always 2.6 x 1.6, and every node builder sets fixedsize to true.
C8_Sizes ==
    called \in NodeBuilders =>
        /\ "fixedsize" \notin DOMAIN args.kwargs =>
               ret.fixedsize = <<"t", "r", "u", "e">>
        /\ DOMAIN args.kwargs \cap {"width", "height"} = {} =>
               IF called \in {"System", "Person"} /\ args.description = <<>>
               THEN ret.width = <<"2">> /\ ret.height = <<"1">>
               ELSE ret.width = <<"2", ".", "6">> /\ ret.height = <<"1", ".", "6">>

\* C8's case: an external Person without a description or overrides.
C8_Witness ==
    /\ called = "Person"
    /\ args.description = <<>>
    /\ args.external
    /\ args.kwargs = <<>>

\* The key the claim expects in the brackets.
ExpectedKey ==
    CASE called = "Container" ->
           IF args.technology = <<>> THEN <<"C", "o", "n", "t", "a", "i", "n", "e", "r">> ELSE <<"C", "o", "n", "t", "a", "i", "n", "e", "r", ":", " ">> \o args.technology
      [] called = "Database" ->
           IF args.technology = <<>> THEN <<"D", "a", "t", "a", "b", "a", "s", "e">> ELSE <<"D", "a", "t", "a", "b", "a", "s", "e", ":", " ">> \o args.technology
      [] called = "System" -> IF args.external THEN <<"E", "x", "t", "e", "r", "n", "a", "l", " ", "S", "y", "s", "t", "e", "m">> ELSE <<"S", "y", "s", "t", "e", "m">>
      [] called = "Person" -> IF args.external THEN <<"E", "x", "t", "e", "r", "n", "a", "l", " ", "P", "e", "r", "s", "o", "n">> ELSE <<"P", "e", "r", "s", "o", "n">>

\* The escaped text between the brackets of the label's subtitle.
ShownKey(label) ==
    LET start == Min(Occurrences(label, SubtitleOpen)) + Len(SubtitleOpen)
        stop == Min({j \in Occurrences(label, SubtitleClose) : j >= start})
    IN  SubSeq(label, start, stop - 1)

\* C9: the key in the brackets is the kind alone or "<Kind>: <technology>"
\* for a Container or Database, and "<Kind>" or "External <Kind>" for a
\* System or Person.
C9_CategoryKey ==
    (called \in NodeBuilders /\ LabelComputed) =>
        /\ Occurrences(ret.label, SubtitleOpen) # {}
        /\ Unescape(ShownKey(ret.label)) = ExpectedKey

\* C9's case: a Database with a technology that holds markup characters.
C9_Witness ==
    /\ called = "Database"
    /\ LabelComputed
    /\ args.technology = Markup

====
